---- MODULE Spec2Model ----
(***************************************************************************)
(* Model of execute_mongodb_query (pharma_mcp_server.py, lines 24-91):     *)
(* one invocation is a process walking through the statements of the       *)
(* try / except / finally block.  The database client (pymongo) is the     *)
(* environment: a collection of stored documents, a lazy cursor, and the   *)
(* exceptions the client library raises.                                   *)
(***************************************************************************)
EXTENDS Integers, Sequences, FiniteSets, TLC

\* Bounds of the model.
NProcs == 2       \* concurrent invocations
NumDocs == 3      \* documents stored in the collection
MaxLimit == 2     \* largest value of the limit argument

Procs == 1..NProcs

VARIABLES
  pc,        \* pc[p]: position of invocation p in the function body
  req,       \* req[p]: the arguments of invocation p
  client,    \* client[p]: local variable client (0 is None, else a handle id)
  cursor,    \* cursor[p]: local variable cursor
  doc,       \* doc[p]: loop variable doc
  results,   \* results[p]: local variable results
  exc,       \* exc[p]: the exception in flight inside the try block
  outcome,   \* outcome[p]: what the caller receives (return value or raised error)
  log,       \* log[p]: the log entries written by invocation p, in order
  handles    \* every MongoClient ever constructed, in order of construction

vars == <<pc, req, client, cursor, doc, results, exc, outcome, log, handles>>

-----------------------------------------------------------------------------
(* Values and documents *)

Fields == {"_id", "x", "y"}

\* A field that a document does not have.
Absent == [t |-> "absent", v |-> 0]

\* BSON values: t is the type, v the payload.  A string's payload is the
\* code of its text: the decimal text of n has code n, the hexadecimal
\* text of ObjectId n has code 100 + n.
ObjectId(n) == [t |-> "oid", v |-> n]
IntVal(n) == [t |-> "int", v |-> n]
StrVal(c) == [t |-> "str", v |-> c]

\* A variant of str() that leaves the value as it is.
StrIdentity(val) == val

\* Python's str() on a value taken from a document.
Str(val) ==
  IF val.t = "oid" THEN StrVal(100 + val.v)
  ELSE IF val.t = "int" THEN StrVal(val.v)
  ELSE val

\* The i-th stored document.  Every stored document has an _id; the _id is
\* an ObjectId unless the document was inserted with an integer key.
StoredDoc(i) ==
  [f \in Fields |->
     IF f = "_id" THEN (IF i % 3 = 0 THEN IntVal(i) ELSE ObjectId(i))
     ELSE IF f = "x" THEN IntVal(i % 2)
     ELSE IF i % 2 = 0 THEN Absent ELSE StrVal(i)]

\* The collection, in the order of insertion.
Collection == [i \in 1..NumDocs |-> StoredDoc(i)]

-----------------------------------------------------------------------------
(* Arguments of a call *)

\* query: {} | {"x": v} | a filter the server rejects
Queries ==
  { [kind |-> "all", v |-> 0], [kind |-> "eq", v |-> 1], [kind |-> "eq", v |-> 2],
    [kind |-> "malformed", v |-> 0] }

\* projection: None, or a dict with the fields of incl mapped to 1 and the
\* fields of excl mapped to 0.
NoProjection == [given |-> FALSE, incl |-> {}, excl |-> {}]
Projections ==
  {NoProjection} \cup
  { [given |-> TRUE, incl |-> i, excl |-> e] :
      <<i, e>> \in { ie \in (SUBSET {"_id", "x"}) \X (SUBSET {"_id", "y"}) :
                       ie[1] \cap ie[2] = {} /\ ie[1] \cup ie[2] # {} } }

\* limit: None or a non-negative integer
NoLimit == [given |-> FALSE, n |-> 0]
Limits == {NoLimit} \cup { [given |-> TRUE, n |-> n] : n \in 0..MaxLimit }

\* sort: None, or a list of (key, direction) pairs; bad marks a list
\* whose elements are not (key, direction) pairs.
NoSort == [given |-> FALSE, bad |-> FALSE, spec |-> <<>>]
Sorts ==
  { NoSort,
    [given |-> TRUE, bad |-> FALSE, spec |-> <<>>],
    [given |-> TRUE, bad |-> FALSE, spec |-> << <<"x", 1>> >>],
    [given |-> TRUE, bad |-> FALSE, spec |-> << <<"x", -1>> >>],
    [given |-> TRUE, bad |-> FALSE, spec |-> << <<"x", 1>>, <<"y", -1>> >>],
    [given |-> TRUE, bad |-> TRUE, spec |-> << <<"x", 0>> >>] }

\* database_name / collection_name: only whether the client library accepts
\* the name matters.
Names == { <<TRUE, TRUE>>, <<FALSE, TRUE>>, <<TRUE, FALSE>> }

Requests ==
  { [query |-> q, dbValid |-> nm[1], collValid |-> nm[2],
     projection |-> pr, limit |-> l, sort |-> s] :
      q \in Queries, nm \in Names, pr \in Projections, l \in Limits, s \in Sorts }

\* The calls issued when several invocations run at once.
ConcRequests ==
  { r \in Requests :
      /\ r.dbValid /\ r.collValid
      /\ r.query \in {[kind |-> "eq", v |-> 1], [kind |-> "malformed", v |-> 0]}
      /\ r.projection = NoProjection
      /\ r.sort = NoSort
      /\ r.limit = [given |-> TRUE, n |-> 1] }

NoRequest ==
  [query |-> [kind |-> "all", v |-> 0], dbValid |-> TRUE, collValid |-> TRUE,
   projection |-> NoProjection, limit |-> NoLimit, sort |-> NoSort]

-----------------------------------------------------------------------------
(* The server side of a cursor *)

\* Does a stored document match the filter?
Matches(d, q) == q.kind = "all" \/ (q.kind = "eq" /\ d["x"] = IntVal(q.v))

\* Indices of the stored documents matching the filter.
Matching(q) == { i \in 1..NumDocs : Matches(Collection[i], q) }

\* A projection the server rejects: it mixes inclusion and exclusion of
\* fields other than _id.
ProjectionRejected(pr) ==
  pr.given /\ (pr.incl \ {"_id"}) # {} /\ (pr.excl \ {"_id"}) # {}

\* The fields a projection keeps.
Kept(pr) ==
  IF ~pr.given THEN Fields
  ELSE IF (pr.incl \ {"_id"}) # {} \/ pr.excl = {}
       THEN (pr.incl \ {"_id"}) \cup (IF "_id" \in pr.excl THEN {} ELSE {"_id"})
       ELSE Fields \ pr.excl

\* A document restricted to the kept fields.
Project(d, pr) == [f \in Fields |-> IF f \in Kept(pr) THEN d[f] ELSE Absent]

\* Sort key of a document; a missing field sorts lowest.
SortKey(d, f) == IF d[f] = Absent THEN -1 ELSE d[f].v

\* Is document a allowed before document b under the sort specification?
RECURSIVE InOrder(_, _, _)
InOrder(a, b, spec) ==
  IF spec = <<>> THEN TRUE
  ELSE LET f == Head(spec)[1]
           dir == Head(spec)[2]
           ka == SortKey(a, f)
           kb == SortKey(b, f)
       IN IF ka = kb THEN InOrder(a, b, Tail(spec))
          ELSE IF dir = 1 THEN ka < kb ELSE ka > kb

\* Sequences of indices listing the set S once each, in an order the sort
\* specification allows (any order when there is none).
Orderings(S, spec) ==
  { s \in [1..Cardinality(S) -> S] :
      /\ \A i, j \in 1..Cardinality(S) : i # j => s[i] # s[j]
      /\ \A i, j \in 1..Cardinality(S) :
           i < j => InOrder(Collection[s[i]], Collection[s[j]], spec) }

\* The first n elements of a sequence (all of it when n = 0: no limit).
Take(s, n) == IF n = 0 \/ n >= Len(s) THEN s ELSE SubSeq(s, 1, n)

\* The result sequences the server may produce for a cursor: the matching
\* documents, sorted, then cut to the limit, then projected.
ServerResults(q, pr, spec, n) ==
  { [k \in 1..Len(Take(s, n)) |-> Project(Collection[s[k]], pr)] :
      s \in Orderings(Matching(q), spec) }

-----------------------------------------------------------------------------
(* Exceptions and what the caller receives *)

ExcClasses == {"ConnectionFailure", "OperationFailure", "Other"}

NoExc == [cls |-> "none", text |-> ""]
Raised(cls, text) == [cls |-> cls, text |-> text]

\* A variant of the handlers in which the broad clause catches everything.
HandlerBroadOnly(cls) == "UnclassifiedError"

\* The except clause that catches an exception of class cls, named by the
\* error kind of the message it raises:
\*   ConnectionError    "Failed to connect to MongoDB: ..."
\*   OperationError     "MongoDB operation failed: ..."
\*   UnclassifiedError  "An error occurred: ..."
Handler(cls) ==
  IF cls = "ConnectionFailure" THEN "ConnectionError"
  ELSE IF cls = "OperationFailure" THEN "OperationError"
  ELSE "UnclassifiedError"

Pending == [kind |-> "pending", docs |-> <<>>, text |-> ""]

NoCursor == [made |-> FALSE, sort |-> <<>>, limit |-> 0, executed |-> FALSE,
             pending |-> <<>>]

NoDoc == [f \in Fields |-> Absent]

-----------------------------------------------------------------------------
(* Initial states *)

InitLocals ==
  /\ client = [p \in Procs |-> 0]
  /\ cursor = [p \in Procs |-> NoCursor]
  /\ doc = [p \in Procs |-> NoDoc]
  /\ results = [p \in Procs |-> <<>>]
  /\ exc = [p \in Procs |-> NoExc]
  /\ outcome = [p \in Procs |-> Pending]
  /\ log = [p \in Procs |-> <<>>]
  /\ handles = <<>>

\* One invocation, with any arguments.
Init ==
  /\ pc = [p \in Procs |-> IF p = 1 THEN "start" ELSE "idle"]
  /\ \E r \in Requests : req = [p \in Procs |-> IF p = 1 THEN r ELSE NoRequest]
  /\ InitLocals

\* Every process invokes the tool at once.
InitConc ==
  /\ pc = [p \in Procs |-> "start"]
  /\ req \in [Procs -> ConcRequests]
  /\ InitLocals

-----------------------------------------------------------------------------
(* The statements of execute_mongodb_query *)

Goto(p, label) == pc' = [pc EXCEPT ![p] = label]

\* An exception raised inside the try block: control moves to the handlers.
Raise(p, cls, text) ==
  /\ exc' = [exc EXCEPT ![p] = Raised(cls, text)]
  /\ Goto(p, "except")

\* line 49: log.info("Connecting to MongoDB...")
LogConnect(p) ==
  /\ pc[p] = "start"
  /\ log' = [log EXCEPT ![p] = Append(@, "connect")]
  /\ Goto(p, "construct")
  /\ UNCHANGED <<req, client, cursor, doc, results, exc, outcome, handles>>

\* A variant of line 50 that hands out a client another invocation already
\* holds open, when there is one.
ConstructShared(p) ==
  /\ pc[p] = "construct"
  /\ LET open == { h \in 1..Len(handles) : handles[h].open }
     IN IF open # {}
        THEN /\ client' = [client EXCEPT ![p] = CHOOSE h \in open : TRUE]
             /\ UNCHANGED handles
        ELSE /\ handles' = Append(handles, [owner |-> p, open |-> TRUE, closedBy |-> <<>>])
             /\ client' = [client EXCEPT ![p] = Len(handles) + 1]
  /\ Goto(p, "db")
  /\ UNCHANGED <<req, cursor, doc, results, exc, outcome, log>>

\* line 50: client = pymongo.MongoClient(CONNECTION_STRING)
\* Either a new client is constructed and assigned, or the constructor
\* raises and client stays None.
Construct(p) ==
  /\ pc[p] = "construct"
  /\ \/ /\ handles' = Append(handles, [owner |-> p, open |-> TRUE, closedBy |-> <<>>])
        /\ client' = [client EXCEPT ![p] = Len(handles) + 1]
        /\ Goto(p, "db")
        /\ UNCHANGED exc
     \/ /\ \E cls \in ExcClasses : Raise(p, cls, "MongoClient")
        /\ UNCHANGED <<client, handles>>
  /\ UNCHANGED <<req, cursor, doc, results, outcome, log>>

\* line 53: db = client[database_name]
ResolveDb(p) ==
  /\ pc[p] = "db"
  /\ IF req[p].dbValid
     THEN Goto(p, "coll") /\ UNCHANGED exc
     ELSE Raise(p, "Other", "InvalidName")
  /\ UNCHANGED <<req, client, cursor, doc, results, outcome, log, handles>>

\* line 56: collection = db[collection_name]
ResolveColl(p) ==
  /\ pc[p] = "coll"
  /\ IF req[p].collValid
     THEN Goto(p, "logquery") /\ UNCHANGED exc
     ELSE Raise(p, "Other", "InvalidName")
  /\ UNCHANGED <<req, client, cursor, doc, results, outcome, log, handles>>

\* line 59: log.info("Executing query on ...")
LogQuery(p) ==
  /\ pc[p] = "logquery"
  /\ log' = [log EXCEPT ![p] = Append(@, "query")]
  /\ Goto(p, "find")
  /\ UNCHANGED <<req, client, cursor, doc, results, exc, outcome, handles>>

\* line 60: cursor = collection.find(query, projection); nothing is sent
\* to the server yet.
Find(p) ==
  /\ pc[p] = "find"
  /\ cursor' = [cursor EXCEPT ![p] = [NoCursor EXCEPT !.made = TRUE]]
  /\ Goto(p, "sort")
  /\ UNCHANGED <<req, client, doc, results, exc, outcome, log, handles>>

\* A variant of lines 63-64 that never applies the sort.
ApplySortSkipped(p) ==
  /\ pc[p] = "sort"
  /\ Goto(p, "limit")
  /\ UNCHANGED <<req, client, cursor, doc, results, exc, outcome, log, handles>>

\* lines 63-64: if sort: cursor = cursor.sort(sort)
ApplySort(p) ==
  /\ pc[p] = "sort"
  /\ LET s == req[p].sort
     IN IF ~s.given \/ s.spec = <<>>
        THEN Goto(p, "limit") /\ UNCHANGED <<cursor, exc>>
        ELSE IF s.bad
        THEN Raise(p, "Other", "sort") /\ UNCHANGED cursor
        ELSE /\ cursor' = [cursor EXCEPT ![p].sort = s.spec]
             /\ Goto(p, "limit")
             /\ UNCHANGED exc
  /\ UNCHANGED <<req, client, doc, results, outcome, log, handles>>

\* A variant of lines 67-68 that never applies the limit.
ApplyLimitSkipped(p) ==
  /\ pc[p] = "limit"
  /\ results' = [results EXCEPT ![p] = <<>>]
  /\ Goto(p, "loop")
  /\ UNCHANGED <<req, client, cursor, doc, exc, outcome, log, handles>>

\* lines 67-71: if limit: cursor = cursor.limit(limit); results = []
ApplyLimit(p) ==
  /\ pc[p] = "limit"
  /\ LET l == req[p].limit
     IN IF l.given /\ l.n # 0
        THEN cursor' = [cursor EXCEPT ![p].limit = l.n]
        ELSE UNCHANGED cursor
  /\ results' = [results EXCEPT ![p] = <<>>]
  /\ Goto(p, "loop")
  /\ UNCHANGED <<req, client, doc, exc, outcome, log, handles>>

\* line 72: for doc in cursor
\* The first step sends the query; the server rejects it, or the batch of
\* result documents arrives.  Every step that needs the network may fail.
CursorNext(p) ==
  /\ pc[p] = "loop"
  /\ LET c == cursor[p]
         r == req[p]
         rejected == r.query.kind = "malformed" \/ ProjectionRejected(r.projection)
         batches == IF c.executed THEN {c.pending}
                    ELSE IF rejected THEN {}
                    ELSE ServerResults(r.query, r.projection, c.sort, c.limit)
     IN \/ /\ ~c.executed \/ c.pending # <<>>
           /\ \E cls \in ExcClasses : Raise(p, cls, "network")
           /\ UNCHANGED <<cursor, doc>>
        \/ /\ ~c.executed /\ rejected
           /\ Raise(p, "OperationFailure", "rejected")
           /\ UNCHANGED <<cursor, doc>>
        \/ \E b \in batches :
             IF b = <<>>
             THEN /\ cursor' = [cursor EXCEPT ![p].executed = TRUE]
                  /\ Goto(p, "return")
                  /\ UNCHANGED <<doc, exc>>
             ELSE /\ cursor' = [cursor EXCEPT ![p].executed = TRUE,
                                              ![p].pending = Tail(b)]
                  /\ doc' = [doc EXCEPT ![p] = Head(b)]
                  /\ Goto(p, "convert")
                  /\ UNCHANGED exc
  /\ UNCHANGED <<req, client, results, outcome, log, handles>>

\* lines 73-74: doc['_id'] = str(doc['_id']); results.append(doc)
Convert(p) ==
  /\ pc[p] = "convert"
  /\ IF doc[p]["_id"] = Absent
     THEN Raise(p, "Other", "KeyError") /\ UNCHANGED <<doc, results>>
     ELSE /\ doc' = [doc EXCEPT ![p]["_id"] = Str(@)]
          /\ results' = [results EXCEPT ![p] = Append(@, doc'[p])]
          /\ Goto(p, "loop")
          /\ UNCHANGED exc
  /\ UNCHANGED <<req, client, cursor, outcome, log, handles>>

\* A variant of line 76 that hands the result to the caller at once.
ReturnSkipsFinally(p) ==
  /\ pc[p] = "return"
  /\ outcome' = [outcome EXCEPT ![p] = [kind |-> "ok", docs |-> results[p], text |-> ""]]
  /\ Goto(p, "done")
  /\ UNCHANGED <<req, client, cursor, doc, results, exc, log, handles>>

\* line 76: return results (the finally block runs before the caller sees it)
Return(p) ==
  /\ pc[p] = "return"
  /\ outcome' = [outcome EXCEPT ![p] = [kind |-> "ok", docs |-> results[p], text |-> ""]]
  /\ Goto(p, "finally")
  /\ UNCHANGED <<req, client, cursor, doc, results, exc, log, handles>>

\* A variant of the handlers that hands over what was accumulated.
ExceptPartial(p) ==
  /\ pc[p] = "except"
  /\ log' = [log EXCEPT ![p] = Append(@, "error")]
  /\ outcome' = [outcome EXCEPT ![p] = [kind |-> Handler(exc[p].cls),
                                        docs |-> results[p], text |-> exc[p].text]]
  /\ Goto(p, "finally")
  /\ UNCHANGED <<req, client, cursor, doc, results, exc, handles>>

\* lines 78-86: the matching except clause logs the error and raises a new
\* Exception whose message holds the text of the caught one.
Except(p) ==
  /\ pc[p] = "except"
  /\ log' = [log EXCEPT ![p] = Append(@, "error")]
  /\ outcome' = [outcome EXCEPT ![p] = [kind |-> Handler(exc[p].cls),
                                        docs |-> <<>>, text |-> exc[p].text]]
  /\ Goto(p, "finally")
  /\ UNCHANGED <<req, client, cursor, doc, results, exc, handles>>

\* A variant of lines 89-90 that never closes the client.
FinallyCloseSkipped(p) ==
  /\ pc[p] = "finally"
  /\ Goto(p, IF client[p] # 0 THEN "logclosed" ELSE "done")
  /\ UNCHANGED <<req, client, cursor, doc, results, exc, outcome, log, handles>>

\* lines 89-90: if client: client.close()
FinallyClose(p) ==
  /\ pc[p] = "finally"
  /\ IF client[p] # 0
     THEN /\ handles' = [handles EXCEPT ![client[p]].open = FALSE,
                                        ![client[p]].closedBy = Append(@, p)]
          /\ Goto(p, "logclosed")
     ELSE /\ Goto(p, "done")
          /\ UNCHANGED handles
  /\ UNCHANGED <<req, client, cursor, doc, results, exc, outcome, log>>

\* A variant of line 91 that writes no entry.
LogClosedSilent(p) ==
  /\ pc[p] = "logclosed"
  /\ Goto(p, "done")
  /\ UNCHANGED <<req, client, cursor, doc, results, exc, outcome, log, handles>>

\* line 91: log.info("MongoDB connection closed."); the caller then
\* receives the return value or the raised error.
LogClosed(p) ==
  /\ pc[p] = "logclosed"
  /\ log' = [log EXCEPT ![p] = Append(@, "closed")]
  /\ Goto(p, "done")
  /\ UNCHANGED <<req, client, cursor, doc, results, exc, outcome, handles>>

Next ==
  \E p \in Procs :
    \/ LogConnect(p)
    \/ Construct(p)
    \/ ResolveDb(p)
    \/ ResolveColl(p)
    \/ LogQuery(p)
    \/ Find(p)
    \/ ApplySort(p)
    \/ ApplyLimit(p)
    \/ CursorNext(p)
    \/ Convert(p)
    \/ Return(p)
    \/ Except(p)
    \/ FinallyClose(p)
    \/ LogClosed(p)

Spec == Init /\ [][Next]_vars

SpecConc == InitConc /\ [][Next]_vars

-----------------------------------------------------------------------------
(* Quantities the properties are stated in *)

\* Clients constructed by invocation p.
OpenedBy(p) == Cardinality({ h \in 1..Len(handles) : handles[h].owner = p })

\* close() calls made by invocation p.
ClosesBy(p) ==
  Cardinality({ hk \in (1..Len(handles)) \X (1..NProcs) :
                  /\ hk[2] <= Len(handles[hk[1]].closedBy)
                  /\ handles[hk[1]].closedBy[hk[2]] = p })

\* Clients constructed by p that are still open.
StillOpen(p) == { h \in 1..Len(handles) : handles[h].owner = p /\ handles[h].open }

\* The caller of p has received the return value or the raised error.
Ended(p) == pc[p] = "done"

\* The return value or the error to raise has been fixed.
Decided(p) == pc[p] \in {"finally", "logclosed", "done"}

Failed(p) == outcome[p].kind \in {"ConnectionError", "OperationError", "UnclassifiedError"}

\* The log of p without the entries written by the except clauses.
Lifecycle(p) == SelectSeq(log[p], LAMBDA e : e # "error")

\* The string a caller must see for the _id of the i-th stored document.
ExpectedId(i) == IF i % 3 = 0 THEN StrVal(i) ELSE StrVal(100 + i)

\* The number of documents a request yields when nothing fails.
ExpectedCount(r) ==
  LET m == Cardinality(Matching(r.query))
  IN IF r.limit.given /\ r.limit.n > 0 /\ r.limit.n < m THEN r.limit.n ELSE m

\* The stored document a returned document comes from, found by its _id.
Origin(rd) ==
  IF \E i \in 1..NumDocs : rd["_id"] = ExpectedId(i)
  THEN CHOOSE i \in 1..NumDocs : rd["_id"] = ExpectedId(i)
  ELSE 0

-----------------------------------------------------------------------------
(* C1 *)

\* C1 (as stated): when an invocation has ended, whatever its outcome, it
\* has performed exactly one close operation.
C1_ClosedExactlyOnce == \A p \in Procs : Ended(p) => ClosesBy(p) = 1

\* C1 (amended): when an invocation has ended, whatever its outcome, it has
\* closed every client it constructed exactly once and nothing else: one
\* close when the constructor returned, none when the constructor raised,
\* never two.
C1_ClosedOncePerHandle ==
  \A p \in Procs :
    Ended(p) =>
      /\ ClosesBy(p) = OpenedBy(p)
      /\ ClosesBy(p) = (IF client[p] # 0 THEN 1 ELSE 0)
      /\ \A h \in 1..Len(handles) :
           handles[h].owner = p => handles[h].closedBy = <<p>>

\* C1 witness: an invocation that failed in the middle of the iteration,
\* after a document was accumulated, has ended with one close.
C1_Witness ==
  \E p \in Procs :
    /\ Ended(p) /\ Failed(p) /\ exc[p].text = "network"
    /\ Len(results[p]) >= 1
    /\ ClosesBy(p) = 1

(* C2 *)

\* C2 (as stated): when the caller observes the outcome, the invocation
\* has opened exactly one handle and none of its handles is open.
C2_OneHandleReleasedFirst ==
  \A p \in Procs : Ended(p) => OpenedBy(p) = 1 /\ StillOpen(p) = {}

\* C2 (amended): an invocation opens at most one handle (exactly one unless
\* the construction of the client itself raises), and when the caller
\* observes the result or the error no handle it opened is still open.
C2_AtMostOneHandleReleasedFirst ==
  \A p \in Procs :
    /\ OpenedBy(p) <= 1
    /\ OpenedBy(p) = (IF client[p] # 0 THEN 1 ELSE 0)
    /\ pc[p] \in {"db", "coll", "logquery", "find", "sort", "limit", "loop",
                  "convert", "return"} => OpenedBy(p) = 1
    /\ Ended(p) => StillOpen(p) = {}

\* C2 witness: a caller has received a result and the one handle of the
\* invocation is closed.
C2_Witness ==
  \E p \in Procs :
    /\ Ended(p) /\ outcome[p].kind = "ok" /\ Len(outcome[p].docs) >= 1
    /\ OpenedBy(p) = 1 /\ StillOpen(p) = {}

(* C3 *)

C4_IdIsStringRestUntouched ==
  \A p \in Procs :
    outcome[p].kind = "ok" =>
      \A k \in 1..Len(outcome[p].docs) :
        LET rd == outcome[p].docs[k]
            i == Origin(rd)
        IN /\ rd["_id"].t = "str"
           /\ i \in Matching(req[p].query)
           /\ rd["_id"] = ExpectedId(i)
           /\ \A f \in Fields \ {"_id"} :
                rd[f] = Project(Collection[i], req[p].projection)[f]

\* C4 witness: a ResultSet holding a document stored with an ObjectId and
\* one stored with an integer key has been returned.
C4_Witness ==
  \E p \in Procs :
    /\ Ended(p) /\ outcome[p].kind = "ok"
    /\ \E k, l \in 1..Len(outcome[p].docs) :
         /\ Collection[Origin(outcome[p].docs[k])]["_id"].t = "oid"
         /\ Collection[Origin(outcome[p].docs[l])]["_id"].t = "int"

(* C5 *)

\* C5 (as stated): with a projection the database accepts, and no failure
\* of the connection, the names, the sort or the query, the call returns
\* every matching document (up to the limit) restricted to the fields the
\* projection keeps, whichever fields are excluded, _id included; without
\* a projection every returned document has all its stored fields.
C5_ProjectionRestricts ==
  \A p \in Procs :
    (Ended(p) /\ exc[p].text \in {"", "KeyError"}) =>
      /\ outcome[p].kind = "ok"
      /\ Len(outcome[p].docs) = ExpectedCount(req[p])
      /\ \A k \in 1..Len(outcome[p].docs) :
           \E i \in Matching(req[p].query) :
             \A f \in Fields :
               (outcome[p].docs[k][f] # Absent) <=>
                 (f \in Kept(req[p].projection) /\ Collection[i][f] # Absent)

(* C6 *)

\* C6: when a ResultSet is returned for a request sorted on one field,
\* its documents are distinct matching documents in the order of the sort
\* direction, there are min(limit, matches) of them, and no matching
\* document left out sorts before a returned one.
C6_SortThenLimit ==
  \A p \in Procs :
    (outcome[p].kind = "ok" /\ Len(req[p].sort.spec) = 1) =>
      LET docs == outcome[p].docs
          f == req[p].sort.spec[1][1]
          dir == req[p].sort.spec[1][2]
          key(i) == Collection[i][f].v
          src == [k \in 1..Len(docs) |-> Origin(docs[k])]
          Before(a, b) == IF dir = 1 THEN a <= b ELSE a >= b
      IN /\ Len(docs) = ExpectedCount(req[p])
         /\ \A k \in 1..Len(docs) : src[k] \in Matching(req[p].query)
         /\ \A k, l \in 1..Len(docs) : k < l => src[k] # src[l]
         /\ \A k, l \in 1..Len(docs) : k < l => Before(key(src[k]), key(src[l]))
         /\ \A i \in Matching(req[p].query) \ {src[k] : k \in 1..Len(docs)} :
              \A k \in 1..Len(docs) : Before(key(src[k]), key(i))

\* C6 witness: an ascending sort with limit 1 over several matching
\* documents returned the one with the smallest key, which is not the
\* first one stored; and a descending one returned a largest.
C6_Witness ==
  \E p \in Procs :
    /\ Ended(p) /\ outcome[p].kind = "ok"
    /\ req[p].sort.spec = << <<"x", 1>> >>
    /\ req[p].limit = [given |-> TRUE, n |-> 1]
    /\ Cardinality(Matching(req[p].query)) >= 2
    /\ Len(outcome[p].docs) = 1
    /\ Origin(outcome[p].docs[1]) = 2

(* C7 *)

C8_NoPartialResults ==
  \A p \in Procs :
    /\ Failed(p) => outcome[p].docs = <<>>
    /\ exc[p] # NoExc /\ Decided(p) => Failed(p)
    /\ outcome[p].kind = "ok" =>
         /\ cursor[p].executed /\ cursor[p].pending = <<>>
         /\ outcome[p].docs = results[p]
         /\ Len(results[p]) = ExpectedCount(req[p])

\* C8 witness: a failure after a document was accumulated reached the
\* caller as an error without documents.
C8_Witness ==
  \E p \in Procs :
    /\ Ended(p) /\ Failed(p)
    /\ Len(results[p]) >= 1
    /\ outcome[p].docs = <<>>

(* C9 *)

\* C9: under any interleaving, the client an invocation holds is one it
\* constructed itself, every close of a handle is made by the invocation
\* that opened it, no handle is open once its invocation has ended, and
\* when all invocations have ended no handle is open.
C9_OwnHandleOnly ==
  /\ \A p \in Procs :
       /\ client[p] # 0 => (client[p] \in 1..Len(handles) /\ handles[client[p]].owner = p)
       /\ Ended(p) => StillOpen(p) = {}
  /\ \A h \in 1..Len(handles) :
       /\ \A k \in 1..Len(handles[h].closedBy) : handles[h].closedBy[k] = handles[h].owner
       /\ Len(handles[h].closedBy) <= 1
       /\ handles[h].open <=> handles[h].closedBy = <<>>
  /\ (\A p \in Procs : Ended(p)) => \A h \in 1..Len(handles) : ~handles[h].open

\* C9 witness: two invocations held two different open handles at the
\* same time.
C9_Witness ==
  \E p, q \in Procs :
    /\ p # q
    /\ client[p] # 0 /\ client[q] # 0 /\ client[p] # client[q]
    /\ handles[client[p]].open /\ handles[client[q]].open
    /\ pc[p] = "convert" /\ pc[q] = "convert"

(* C10 *)

\* C10 (as stated): when an invocation has ended its lifecycle entries are
\* connect, query, closed, each once and in that order, closed being the
\* last entry of the log.
C10_ConnectQueryClosed ==
  \A p \in Procs :
    Ended(p) =>
      /\ Lifecycle(p) = <<"connect", "query", "closed">>
      /\ log[p][Len(log[p])] = "closed"

\* C10 (amended): the connect entry is written once and first; the query
\* entry at most once, after connect, and exactly when database and
\* collection were resolved; the closed entry at most once, as the last
\* entry, and exactly when the handle was closed, which is whenever the
\* client was constructed.  A call whose client constructor raised logs
\* neither query nor closed; a call that fails before the query is issued
\* logs connect and closed only.
C10_LifecycleOrder ==
  \A p \in Procs :
    /\ Lifecycle(p) \in { <<>>, <<"connect">>, <<"connect", "query">>,
                          <<"connect", "closed">>,
                          <<"connect", "query", "closed">> }
    /\ (\E k \in 1..Len(log[p]) : log[p][k] = "closed") =>
         /\ log[p][Len(log[p])] = "closed"
         /\ ClosesBy(p) = 1
    /\ (\E k \in 1..Len(log[p]) : log[p][k] = "query") <=>
         (pc[p] \in {"find", "sort", "limit", "loop", "convert", "return"}
            \/ cursor[p].made)
    /\ Ended(p) =>
         /\ Len(log[p]) >= 1 /\ log[p][1] = "connect"
         /\ (log[p][Len(log[p])] = "closed") <=> ClosesBy(p) = 1
         /\ ClosesBy(p) = 1 <=> client[p] # 0

\* C10 witness: a call that failed after its query was issued has logged
\* connect, query, error, closed.
C10_Witness ==
  \E p \in Procs :
    Ended(p) /\ log[p] = <<"connect", "query", "error", "closed">>

====
